---- MODULE Spec2Model ----
(***************************************************************************)
(* Event engine of the Nostr IM client (windbelike/my-nostr-im).           *)
(*                                                                         *)
(* The repository holds two generations of the same React component:       *)
(*   "v1"  src/src/App.tsx lines 17-732   (handleLogin)                    *)
(*   "v2"  src/unnamed/part_000 and src/src/App.tsx lines 757-1775         *)
(*         (handleSignIn / handleSignUp; the two copies differ only in     *)
(*         comments and presentation)                                      *)
(* The variable `variant` fixes which generation a behaviour runs.         *)
(*                                                                         *)
(* React/Jotai semantics that the model keeps:                             *)
(*  - atoms (user, messages, ...) are updated synchronously by a setter;   *)
(*  - every function of the component reads the atom values of the render  *)
(*    in which it was created.  React renders App again after every        *)
(*    handler that changed an atom, so the UI handlers read the current    *)
(*    values (`view`), while ws.onopen / ws.onmessage and the timers armed *)
(*    at login keep reading the snapshot of the render whose               *)
(*    connectToRelays created the sockets (`hview`);                       *)
(*  - globalConnections / globalUser are module-level variables, read      *)
(*    live.                                                                *)
(***************************************************************************)
EXTENDS Integers, Sequences, FiniteSets, TLC

VARIABLES
    variant,            \* which generation of App runs
    step,               \* useState 'login' | 'chat'
    user,               \* userAtom: <<>> (null) or <<[name, pubkey, privateKey]>>
    globalUser,         \* module-level globalUser (v2 only)
    messages,           \* messagesAtom: sequence of message records
    wsConnections,      \* wsConnectionsAtom: sequence of connection ids
    globalConnections,  \* module-level globalConnections
    userProfiles,       \* userProfilesAtom: pubkey -> profile (partial function)
    subscribedUsers,    \* subscribedUsersAtom: set of pubkeys
    newMessage,         \* useState draft text
    hview,              \* snapshot read by the socket handlers and login timers
    readyState,         \* connection id -> "NONE" | "CONNECTING" | "OPEN" | "CLOSED"
    sent,               \* connection id -> set of frames passed to ws.send so far
    timers,             \* set of pending setTimeout callbacks
    pending,            \* sequence of async calls suspended on crypto.subtle.digest
    now,                \* Date.now() in milliseconds
    modal,              \* the sign-up dialog: <<>> or <<[name, privateKey]>>
    mounted,            \* the component is mounted (no teardown yet)
    ninputs,            \* relay frames, button presses, faults and ticks so far
    last                \* what the latest step did (observation only)

vars == <<variant, step, user, globalUser, messages, wsConnections,
          globalConnections, userProfiles, subscribedUsers, newMessage, hview,
          readyState, sent, timers, pending, now, modal, mounted, ninputs,
          last>>

---------------------------------------------------------------------------
(* Bounds of the exploration *)

MaxInputs == 2
TickMs == 600
StartMs == 1300

---------------------------------------------------------------------------
(* Configuration *)

Variants == {"v1", "v2"}

relays == <<"wss://relay.damus.io", "wss://relay.snort.social">>

Conns == 1..Len(relays)

currEnv == "test"

hostname == "example.com"

pathname == "/"

getChannelId == "nostr_im_of_sawyer_" \o currEnv \o "_" \o hostname \o pathname

OtherChannelId == "nostr_im_of_sawyer_" \o currEnv \o "_" \o "elsewhere.org" \o pathname

---------------------------------------------------------------------------
(* JavaScript helpers *)

Min(a, b) == IF a < b THEN a ELSE b

Range(s) == {s[i] : i \in 1..Len(s)}

\* String.prototype.substring(0, n)
substring0(s, n) == SubSeq(s, 1, Min(n, Len(s)))

\* String.prototype.trim() over the drafts the model types: blanks only or none
RECURSIVE trim(_)
trim(s) ==
    IF Len(s) = 0 THEN s
    ELSE IF SubSeq(s, 1, 1) = " " THEN trim(SubSeq(s, 2, Len(s)))
    ELSE IF SubSeq(s, Len(s), Len(s)) = " " THEN trim(SubSeq(s, 1, Len(s) - 1))
    ELSE s

\* JSON.stringify of a string: quotes and backslashes are escaped
RECURSIVE JsonEscape(_)
JsonEscape(s) ==
    IF Len(s) = 0 THEN ""
    ELSE IF Len(s) = 1
    THEN (IF s = "\"" THEN "\\\"" ELSE IF s = "\\" THEN "\\\\" ELSE s)
    ELSE JsonEscape(SubSeq(s, 1, Len(s) \div 2))
            \o JsonEscape(SubSeq(s, Len(s) \div 2 + 1, Len(s)))

JsonString(s) == "\"" \o JsonEscape(s) \o "\""

\* JSON.stringify of an array of strings, and of an array of such arrays
RECURSIVE JsonJoin(_, _)
JsonJoin(items, i) ==
    IF i > Len(items) THEN ""
    ELSE (IF i > 1 THEN "," ELSE "") \o items[i] \o JsonJoin(items, i + 1)

JsonTag(tag) == "[" \o JsonJoin([i \in 1..Len(tag) |-> JsonString(tag[i])], 1) \o "]"

JsonTags(tags) == "[" \o JsonJoin([i \in 1..Len(tags) |-> JsonTag(tags[i])], 1) \o "]"

\* JS Set<string>: insertion-ordered, no duplicates; kept as a sequence
SetHas(set, x) == \E i \in 1..Len(set) : set[i] = x

SetAdd(set, x) == IF SetHas(set, x) THEN set ELSE Append(set, x)

\* optional values: <<>> is undefined / null, <<v>> is v
Some(v) == <<v>>

None == <<>>

Has(rec, field) == field \in DOMAIN rec

Get(rec, field) == IF Has(rec, field) THEN Some(rec[field]) ELSE None

\* Array.prototype.sort((a, b) => a.time - b.time): stable, ascending by time
RECURSIVE InsertByTime(_, _)
InsertByTime(sorted, m) ==
    IF Len(sorted) = 0 THEN <<m>>
    ELSE IF sorted[Len(sorted)].time <= m.time THEN Append(sorted, m)
    ELSE Append(InsertByTime(SubSeq(sorted, 1, Len(sorted) - 1), m), sorted[Len(sorted)])

RECURSIVE sortByTime(_)
sortByTime(list) ==
    IF Len(list) = 0 THEN <<>>
    ELSE InsertByTime(sortByTime(SubSeq(list, 1, Len(list) - 1)), list[Len(list)])

---------------------------------------------------------------------------
(* Crypto primitives of nostr-tools and WebCrypto, as ideal functions *)

\* private keys as typed or generated (stand-ins for 64 hex characters)
SignInKey == "k1"

GeneratedKey == "k2"

\* 64 typed characters whose bytes are no secp256k1 secret key (not hex, all
\* zero, or not below the curve order)
InvalidKey == "k0"

\* schnorr.getPublicKey / finalizeEvent throw on such bytes
validSecretKey(privateKey) == privateKey # InvalidKey

\* getPublicKey(privateKeyBytes): deterministic, injective
getPublicKey(privateKey) ==
    IF privateKey = SignInKey THEN "aaaaaaaa01" ELSE "bbbbbbbb02"

\* the reduce((acc << 5) - acc + byte) fallback, Math.abs(hash).toString(16):
\* at most 8 hex digits
simpleHash(s) == IF s = InvalidKey THEN "5c" ELSE "9d"

\* .padStart(64, '0').substring(0, 64) and .padStart(128, '0').substring(0, 128)
\* at the widths of the stand-ins: the first 8 characters are zeros
padStart64(h) == "00000000" \o h

padStart128(h) == "0000000000000000" \o h

derivePublicKey(privateKey) ==
    IF validSecretKey(privateKey) THEN getPublicKey(privateKey)
    ELSE padStart64(simpleHash(privateKey))

\* crypto.subtle.digest('SHA-256', data), hex encoded: collision free
sha256(data) == "sha256(" \o data \o ")"

\* JSON.stringify([0, pubkey, created_at, kind, tags, content])
eventContent(t) ==
    "[0," \o JsonString(t.pubkey) \o "," \o ToString(t.created_at) \o ","
          \o ToString(t.kind) \o "," \o JsonTags(t.tags) \o ","
          \o JsonString(t.content) \o "]"

\* finalizeEvent(event, privateKeyBytes): fills pubkey, id and sig of the
\* template it is given (it returns the same object)
finalizeEvent(t, privateKey) ==
    LET withKey == [t EXCEPT !.pubkey = getPublicKey(privateKey)]
        id == sha256(eventContent(withKey))
    IN  [kind |-> t.kind, tags |-> t.tags, content |-> t.content,
         created_at |-> t.created_at, pubkey |-> withKey.pubkey, id |-> id,
         sig |-> "schnorr(" \o getPublicKey(privateKey) \o "," \o id \o ")"]

\* a fallback that pads the key material itself
generateSignatureOfKey(privateKey, t) ==
    IF validSecretKey(privateKey) THEN finalizeEvent(t, privateKey).sig
    ELSE padStart128(privateKey)

\* the catch branch hashes privateKey + event.id of the untouched template,
\* whose id is undefined
generateSignature(privateKey, t) ==
    IF validSecretKey(privateKey) THEN finalizeEvent(t, privateKey).sig
    ELSE padStart128(simpleHash(privateKey \o "undefined"))

---------------------------------------------------------------------------
(* Wire frames *)

ReqFrame(subId, filter) == [verb |-> "REQ", sub |-> subId, filter |-> filter]

EventFrame(event) == [verb |-> "EVENT", event |-> event]

ChannelReq ==
    ReqFrame("channel_" \o getChannelId, [kinds |-> <<1>>, t |-> <<getChannelId>>])

ProfilesAllReq(allUsers) ==
    ReqFrame("profiles_all", [kinds |-> <<0>>, authors |-> allUsers])

ProfileReq(pubkey) ==
    ReqFrame("profile_" \o pubkey, [kinds |-> <<0>>, authors |-> <<pubkey>>])

IsProfilesAllReq(f) == f.verb = "REQ" /\ f.sub = "profiles_all"

IsChannelReq(f) == f = ChannelReq

\* frames a handler has passed to ws.send, per connection, in order
Quiet == [c \in Conns |-> <<>>]

\* a forEach that sends on every socket of the list, whatever its readyState
sendToCreated(connections, frame, out) ==
    [c \in Conns |->
        IF c \in Range(connections) THEN Append(out[c], frame) ELSE out[c]]

\* connections.forEach(ws => { if (ws.readyState === WebSocket.OPEN) ws.send(frame) })
sendToOpen(connections, frame, out) ==
    [c \in Conns |->
        IF c \in Range(connections) /\ readyState[c] = "OPEN"
        THEN Append(out[c], frame)
        ELSE out[c]]

---------------------------------------------------------------------------
(* Subscription registry.  `snap` is the render snapshot the calling       *)
(* closure reads; `out` holds the frames the running handler sent so far.   *)

currentConnections(snap) ==
    IF Len(globalConnections) > 0 THEN globalConnections ELSE snap.wsConnections

\* usersToSubscribe is None when the argument is omitted
subscribeAllProfiles(snap, usersToSubscribe, out) ==
    LET currentSubscribedUsers ==
            IF usersToSubscribe # None THEN usersToSubscribe[1]
            ELSE snap.subscribedUsers
    IN  IF Len(currentSubscribedUsers) = 0 THEN out
        ELSE sendToOpen(currentConnections(snap),
                        ProfilesAllReq(currentSubscribedUsers), out)

subscribeToUserProfile(snap, pubkey, out) ==
    IF Len(currentConnections(snap)) = 0 THEN out
    ELSE sendToOpen(currentConnections(snap), ProfileReq(pubkey), out)

\* the value setSubscribedUsers leaves in the atom (`registry` is its value
\* before the call) and the frames sent once the call returns
addUserToSubscription(snap, pubkey, registry, out) ==
    IF SetHas(snap.subscribedUsers, pubkey)
    THEN [subscribedUsers |-> registry, out |-> out]
    ELSE LET newSet == SetAdd(snap.subscribedUsers, pubkey)
         IN  [subscribedUsers |-> newSet,
              out |-> subscribeAllProfiles(snap, Some(newSet), out)]

---------------------------------------------------------------------------
(* Event factory *)

\* a profile whose avatar is seeded with the whole pubkey
profileContentWholeKey(name, pubkey) ==
    "{\"name\":" \o JsonString(name)
        \o ",\"about\":" \o JsonString("Nostr IM user - " \o name)
        \o ",\"picture\":"
        \o JsonString("https://api.dicebear.com/7.x/avataaars/svg?seed=" \o pubkey)
        \o "}"

\* JSON.stringify({ name, about, picture }) of sendProfileEvent
profileContent(name, pubkey) ==
    "{\"name\":" \o JsonString(name)
        \o ",\"about\":" \o JsonString("Nostr IM user - " \o name)
        \o ",\"picture\":"
        \o JsonString("https://api.dicebear.com/7.x/avataaars/svg?seed="
                        \o substring0(pubkey, 8))
        \o "}"

profileTemplate(name, pubkey, created_at) ==
    [kind |-> 0, tags |-> <<>>, content |-> profileContent(name, pubkey),
     created_at |-> created_at, pubkey |-> pubkey]

channelTemplate(text, pubkey, created_at) ==
    [kind |-> 1, tags |-> << <<"t", getChannelId>> >>, content |-> text,
     created_at |-> created_at, pubkey |-> pubkey]

\* the template as generateSignature leaves it (finalizeEvent wrote into it)
signedTemplate(t, privateKey) ==
    IF validSecretKey(privateKey)
    THEN [finalizeEvent(t, privateKey) EXCEPT !.sig = generateSignature(privateKey, t)]
    ELSE [kind |-> t.kind, tags |-> t.tags, content |-> t.content,
          created_at |-> t.created_at, pubkey |-> t.pubkey, id |-> "undefined",
          sig |-> generateSignature(privateKey, t)]

\* an event whose id is the digest of its content alone
finalEventOfContent(signed) == [signed EXCEPT !.id = sha256(signed.content)]

\* { ...eventTemplate, id: eventId, sig: signature } once the digest is known
finalEvent(signed) == [signed EXCEPT !.id = sha256(eventContent(signed))]

---------------------------------------------------------------------------
(* Message store and profile store *)

exists(prev, message) == \E i \in 1..Len(prev) : prev[i].id = message.id

\* an insertion that does not look for the key
insertReceivedBlind(prev, message) ==
    IF variant = "v1" THEN Append(prev, message)
    ELSE sortByTime(Append(prev, message))

\* setMessages(prev => ...) of ws.onmessage
insertReceived(prev, message) ==
    IF exists(prev, message) THEN prev
    ELSE IF variant = "v1" THEN Append(prev, message)
    ELSE sortByTime(Append(prev, message))

\* setMessages(prev => ...) of handleSendMessage
insertLocal(prev, message) ==
    IF variant = "v1" THEN Append(prev, message)
    ELSE IF exists(prev, message) THEN prev
    ELSE sortByTime(Append(prev, message))

receivedMessage(event) ==
    [id |-> IF Has(event, "id") THEN event.id
            ELSE "received_" \o ToString(event.created_at) \o "_"
                    \o substring0(event.pubkey, 8),
     text |-> event.content,
     sender |-> event.pubkey,
     time |-> event.created_at * 1000,
     event |-> event]

localMessage(event, text, pubkey, dateNow) ==
    [id |-> event.id, text |-> text, sender |-> pubkey, time |-> dateNow,
     event |-> event]

\* a filter that looks at the tag name only and lets every channel through
hasAnyChannelTag(event) ==
    /\ Has(event, "tags")
    /\ \E i \in 1..Len(event.tags) :
          /\ Len(event.tags[i]) >= 2
          /\ event.tags[i][1] = "t"

\* event.tags && event.tags.some(tag => tag[0] === 't' && tag[1] === channelId)
hasChannelTag(event) ==
    /\ Has(event, "tags")
    /\ \E i \in 1..Len(event.tags) :
          /\ Len(event.tags[i]) >= 2
          /\ event.tags[i][1] = "t"
          /\ event.tags[i][2] = getChannelId

\* JSON objects the relays put into the content of kind-0 events
ProfileObjects ==
    {[name |-> "Alice"], [name |-> "Alice2", about |-> "hi"], [about |-> "anon"]}

RECURSIVE JsonFields(_, _)
JsonFields(obj, keys) ==
    IF Len(keys) = 0 THEN <<>>
    ELSE (IF Has(obj, keys[1])
          THEN <<JsonString(keys[1]) \o ":" \o JsonString(obj[keys[1]])>>
          ELSE <<>>) \o JsonFields(obj, Tail(keys))

JsonObject(obj) ==
    "{" \o JsonJoin(JsonFields(obj, <<"name", "about", "picture">>), 1) \o "}"

\* the objects whose JSON text reaches JSON.parse: those of the relays and the
\* profiles this client publishes
KnownProfiles ==
    ProfileObjects \cup
        {[name |-> n, about |-> "Nostr IM user - " \o n,
          picture |-> "https://api.dicebear.com/7.x/avataaars/svg?seed="
                        \o substring0(p, 8)] :
            n \in {"alice"}, p \in {getPublicKey(SignInKey),
                                    getPublicKey(GeneratedKey)}}

\* JSON.stringify of each of them
ProfileText == [o \in KnownProfiles |-> JsonObject(o)]

\* JSON.parse(event.content): None when it throws
JSONparse(text) ==
    LET match == {o \in KnownProfiles : ProfileText[o] = text}
    IN  IF match = {} THEN None ELSE Some(CHOOSE o \in match : TRUE)

\* a store that keeps the first profile it saw for a pubkey
upsertProfileOnce(prev, pubkey, profile) ==
    [k \in DOMAIN prev \cup {pubkey} |->
        IF k \in DOMAIN prev THEN prev[k] ELSE profile]

\* setUserProfiles(prev => ({ ...prev, [event.pubkey]: { ... } }))
upsertProfile(prev, pubkey, profile) ==
    [k \in DOMAIN prev \cup {pubkey} |-> IF k = pubkey THEN profile ELSE prev[k]]

---------------------------------------------------------------------------
(* Inbound event router: the effect of ws.onmessage on the engine state.   *)
(* A frame is [json |-> FALSE] (JSON.parse throws) or                      *)
(* [json |-> TRUE, data |-> the parsed array].                             *)

Unchanged ==
    [userProfiles |-> userProfiles, user |-> user, globalUser |-> globalUser,
     subscribedUsers |-> subscribedUsers, messages |-> messages, out |-> Quiet]

\* a kind-0 branch without the inner try: whatever the content, an entry with
\* the default name is stored
routeProfileUnparsed(event) ==
    [Unchanged EXCEPT
        !.userProfiles =
            upsertProfile(userProfiles, event.pubkey,
                          [name |-> "User_" \o substring0(event.pubkey, 8),
                           about |-> None, picture |-> None])]

\* ws.onmessage, event.kind === 0
routeProfile(event) ==
    LET parsed == JSONparse(event.content)
    IN  IF parsed = None THEN Unchanged
        ELSE LET profile == parsed[1]
                 profileName ==
                    IF Has(profile, "name") /\ profile.name # "" THEN profile.name
                    ELSE "User_" \o substring0(event.pubkey, 8)
                 isSelf == /\ variant = "v2"
                           /\ globalUser # None
                           /\ event.pubkey = globalUser[1].pubkey
                 updatedUser == Some([globalUser[1] EXCEPT !.name = profileName])
             IN  [Unchanged EXCEPT
                    !.userProfiles =
                        upsertProfile(userProfiles, event.pubkey,
                                      [name |-> profileName,
                                       about |-> Get(profile, "about"),
                                       picture |-> Get(profile, "picture")]),
                    !.user = IF isSelf THEN updatedUser ELSE user,
                    !.globalUser = IF isSelf THEN updatedUser ELSE globalUser]

\* a kind-1 branch that registers the sender before it looks at the tags
routeNoteRegistersFirst(event) ==
    LET added == addUserToSubscription(hview, event.pubkey,
                                       subscribedUsers, Quiet)
    IN  IF ~hasChannelTag(event)
        THEN [Unchanged EXCEPT
                !.subscribedUsers = added.subscribedUsers,
                !.out = added.out]
        ELSE [Unchanged EXCEPT
                !.subscribedUsers = added.subscribedUsers,
                !.out = added.out,
                !.messages = insertReceived(messages, receivedMessage(event))]

routeNote(event) ==
    IF ~hasChannelTag(event) THEN Unchanged
    ELSE LET added == addUserToSubscription(hview, event.pubkey,
                                            subscribedUsers, Quiet)
         IN  [Unchanged EXCEPT
                !.subscribedUsers = added.subscribedUsers,
                !.out = added.out,
                !.messages = insertReceived(messages, receivedMessage(event))]

route(frame) ==
    IF ~frame.json THEN Unchanged
    ELSE IF Len(frame.data) = 0 \/ frame.data[1] # "EVENT" THEN Unchanged
    ELSE IF Len(frame.data) < 3 THEN Unchanged
    ELSE IF frame.data[3].kind = 0 THEN routeProfile(frame.data[3])
    ELSE IF frame.data[3].kind = 1 THEN routeNote(frame.data[3])
    ELSE Unchanged

---------------------------------------------------------------------------
(* What the relays deliver *)

Sender1 == "aaaaaaaa03"

Sender2 == "cccccccc04"

channelTags == << <<"t", getChannelId>> >>

withId(t) ==
    [kind |-> t.kind, tags |-> t.tags, content |-> t.content,
     created_at |-> t.created_at, pubkey |-> t.pubkey,
     id |-> sha256(eventContent(t))]

note(pubkey, created_at, tags, content) ==
    [kind |-> 1, tags |-> tags, content |-> content, created_at |-> created_at,
     pubkey |-> pubkey]

RelayEvents ==
    { withId(note(Sender1, 2, channelTags, "hi")),
      withId(note(Sender2, 1, channelTags, "yo")),
      note(Sender2, 1, channelTags, "yo"),
      withId(note(Sender1, 1, << <<"t", OtherChannelId>> >>, "hi")),
      withId(note(Sender2, 1, << <<"e", getChannelId>>, <<"t">> >>, "yo")),
      [kind |-> 1, content |-> "yo", created_at |-> 1, pubkey |-> Sender2,
       id |-> "feed"],
      withId([note(Sender1, 1, channelTags, "dm") EXCEPT !.kind = 4]),
      withId([note(Sender1, 2, <<>>, JsonObject([name |-> "Alice"])) EXCEPT !.kind = 0]),
      withId([note(Sender1, 2, <<>>, "not json") EXCEPT !.kind = 0]),
      withId([note(getPublicKey(GeneratedKey), 0, <<>>,
                   JsonObject([name |-> "Alice2", about |-> "hi"]))
                EXCEPT !.kind = 0]) }

EventMsg(event) == [json |-> TRUE, data |-> <<"EVENT", "sub", event>>]

\* frames a relay may deliver on connection c: the fixed ones, and the echo of
\* every event this client published on c
RelayFrames(c) ==
    {EventMsg(e) : e \in RelayEvents}
        \cup {EventMsg(f.event) : f \in {g \in sent[c] : g.verb = "EVENT"}}
        \cup {[json |-> FALSE, data |-> <<>>],
              [json |-> TRUE, data |-> <<"NOTICE", "hello">>],
              [json |-> TRUE, data |-> <<"EVENT", "sub">>]}

---------------------------------------------------------------------------
(* Initial state: the module is loaded and App is rendered once *)

Rendered(u, su, ws, nm) ==
    [user |-> u, subscribedUsers |-> su, wsConnections |-> ws, newMessage |-> nm]

\* what the functions of the latest render read
view == Rendered(user, subscribedUsers, wsConnections, newMessage)

\* the latest step: the handler that ran, the relay frame it was given
\* (None: none) and the frames it sent on each connection
Did(op, frame, out) == [op |-> op, frame |-> frame, out |-> out]

Wire(out) == [c \in Conns |-> sent[c] \cup Range(out[c])]

Timer(cb, conn, name, pubkey, privateKey) ==
    [cb |-> cb, conn |-> conn, name |-> name, pubkey |-> pubkey,
     privateKey |-> privateKey]

Init ==
    /\ variant \in Variants
    /\ step = "login"
    /\ user = None
    /\ globalUser = None
    /\ messages = <<>>
    /\ wsConnections = <<>>
    /\ globalConnections = <<>>
    /\ userProfiles = <<>>
    /\ subscribedUsers = <<>>
    /\ newMessage = ""
    /\ hview = Rendered(None, <<>>, <<>>, "")
    /\ readyState = [c \in Conns |-> "NONE"]
    /\ sent = [c \in Conns |-> {}]
    /\ timers = {}
    /\ pending = <<>>
    /\ now = StartMs
    /\ modal = None
    /\ mounted = TRUE
    /\ ninputs = 0
    /\ last = Did("init", None, Quiet)

---------------------------------------------------------------------------
(* Login *)

\* the relays whose WebSocket constructor does not throw: all, the last only
\* (the first one threw), or none
Created == {Conns, {Len(relays)}, {}}

\* a loop that a throwing constructor ends: only the relays before the first
\* failure are kept
ConnSeqUntilThrow(created) ==
    SelectSeq([i \in Conns |-> i], LAMBDA c : \A d \in 1..c : d \in created)

\* connections.push(ws) for every relay whose constructor returned
ConnSeq(created) == SelectSeq([i \in Conns |-> i], LAMBDA c : c \in created)

\* The common part of handleSignIn, proceedWithSignUp and handleLogin:
\* setUser, setStep, addUserToSubscription, connectToRelays, setTimeout.
\* `created` are the relays whose WebSocket constructor did not throw.
Login(op, userInfo, timer, created) ==
    LET added == addUserToSubscription(view, userInfo.pubkey, subscribedUsers, Quiet)
    IN  /\ user' = Some(userInfo)
        /\ globalUser' = IF variant = "v2" THEN Some(userInfo) ELSE globalUser
        /\ step' = "chat"
        /\ subscribedUsers' = added.subscribedUsers
        /\ sent' = Wire(added.out)
        /\ readyState' = [c \in Conns |->
                            IF c \in created THEN "CONNECTING" ELSE readyState[c]]
        /\ wsConnections' = ConnSeq(created)
        /\ globalConnections' = ConnSeq(created)
        /\ timers' = timers \cup {timer}
        /\ hview' = view
        /\ modal' = None
        /\ last' = Did(op, None, added.out)
        /\ UNCHANGED <<variant, messages, userProfiles, newMessage, pending, now,
                       mounted, ninputs>>

\* what the user types into the private key field
SignInKeys == {SignInKey, InvalidKey}

handleSignIn ==
    /\ variant = "v2" /\ mounted /\ step = "login" /\ modal = None
    /\ \E created \in Created, privateKeyInput \in SignInKeys :
          LET privateKey == trim(privateKeyInput)
              pubkey == derivePublicKey(privateKey)
          IN  Login("handleSignIn",
                    [name |-> "User_" \o substring0(pubkey, 8), pubkey |-> pubkey,
                     privateKey |-> privateKey],
                    Timer("subscribeToUserProfile", 0, "", pubkey, ""),
                    created)

handleSignUp ==
    /\ variant = "v2" /\ mounted /\ step = "login" /\ modal = None
    /\ modal' = Some([name |-> "alice", privateKey |-> GeneratedKey])
    /\ last' = Did("handleSignUp", None, Quiet)
    /\ UNCHANGED <<variant, step, user, globalUser, messages, wsConnections,
                   globalConnections, userProfiles, subscribedUsers, newMessage,
                   hview, readyState, sent, timers, pending, now, mounted,
                   ninputs>>

cancelSignUp ==
    /\ mounted /\ modal # None
    /\ modal' = None
    /\ last' = Did("cancelSignUp", None, Quiet)
    /\ UNCHANGED <<variant, step, user, globalUser, messages, wsConnections,
                   globalConnections, userProfiles, subscribedUsers, newMessage,
                   hview, readyState, sent, timers, pending, now, mounted,
                   ninputs>>

proceedWithSignUp ==
    /\ mounted /\ modal # None
    /\ \E created \in Created :
          LET name == modal[1].name
              privateKey == modal[1].privateKey
              pubkey == derivePublicKey(privateKey)
          IN  Login("proceedWithSignUp",
                    [name |-> name, pubkey |-> pubkey, privateKey |-> privateKey],
                    Timer("sendProfileEvent", 0, name, pubkey, privateKey),
                    created)

\* v1: one form; an empty key field generates a key and asks to confirm, and
\* the key typed otherwise is the one an earlier visit generated
handleLogin ==
    /\ variant = "v1" /\ mounted /\ step = "login"
    /\ \E privateKeyInput \in {"", GeneratedKey}, saveKey \in BOOLEAN,
          created \in Created :
          LET name == "alice"
              privateKey == IF trim(privateKeyInput) = "" THEN GeneratedKey
                            ELSE trim(privateKeyInput)
              pubkey == derivePublicKey(privateKey)
          IN  IF trim(privateKeyInput) = "" /\ ~saveKey
              THEN /\ last' = Did("handleLogin", None, Quiet)
                   /\ UNCHANGED <<variant, step, user, globalUser, messages,
                                  wsConnections, globalConnections, userProfiles,
                                  subscribedUsers, newMessage, hview,
                                  readyState, sent, timers, pending, now, modal,
                                  mounted, ninputs>>
              ELSE Login("handleLogin",
                         [name |-> name, pubkey |-> pubkey, privateKey |-> privateKey],
                         Timer("sendProfileEvent", 0, name, pubkey, privateKey),
                         created)

---------------------------------------------------------------------------
(* Socket handlers (closures of the login render: they read hview) *)

userReady(snap) ==
    /\ snap.user # None
    /\ snap.user[1].name # "" /\ snap.user[1].pubkey # ""
    /\ snap.user[1].privateKey # ""

\* an onopen that reads the user of the latest render
onopenTimersLiveUser(c) ==
    {Timer("subscribeAllProfiles", c, "", "", "")}
        \cup IF userReady(view)
             THEN {Timer("sendProfileEvent", c, view.user[1].name,
                         view.user[1].pubkey, view.user[1].privateKey)}
             ELSE {}

\* timers ws.onopen arms: the settle timer, and the profile timer when the
\* closure's user is set
onopenTimers(c) ==
    {Timer("subscribeAllProfiles", c, "", "", "")}
        \cup IF userReady(hview)
             THEN {Timer("sendProfileEvent", c, hview.user[1].name,
                         hview.user[1].pubkey, hview.user[1].privateKey)}
             ELSE {}

\* an onopen that would wait for the registry before subscribing to the feed
onopenFramesIfRegistry(c) ==
    IF Len(hview.subscribedUsers) > 0 THEN [Quiet EXCEPT ![c] = <<ChannelReq>>]
    ELSE Quiet

\* an onopen that asks for the profiles of the registry before the feed
onopenFramesProfilesFirst(c) ==
    [Quiet EXCEPT ![c] = <<ProfilesAllReq(view.subscribedUsers), ChannelReq>>]

\* frames ws.onopen sends on its own socket
onopenFrames(c) == [Quiet EXCEPT ![c] = <<ChannelReq>>]

onopen(c) ==
    /\ readyState[c] = "CONNECTING"
    /\ readyState' = [readyState EXCEPT ![c] = "OPEN"]
    /\ sent' = Wire(onopenFrames(c))
    /\ timers' = timers \cup onopenTimers(c)
    /\ last' = Did("onopen", None, onopenFrames(c))
    /\ UNCHANGED <<variant, step, user, globalUser, messages, wsConnections,
                   globalConnections, userProfiles, subscribedUsers, newMessage,
                   hview, pending, now, modal, mounted, ninputs>>

\* a message handler without the outer try: the exception of a frame that is
\* not JSON, or that has no event, escapes and the socket is closed
onmessageUncaught(c, frame) ==
    /\ readyState[c] = "OPEN"
    /\ ninputs < MaxInputs
    /\ ninputs' = ninputs + 1
    /\ LET r == route(frame)
           thrown == ~frame.json \/ (frame.data[1] = "EVENT" /\ Len(frame.data) < 3)
       IN  /\ userProfiles' = r.userProfiles
           /\ user' = r.user
           /\ globalUser' = r.globalUser
           /\ subscribedUsers' = r.subscribedUsers
           /\ messages' = r.messages
           /\ sent' = Wire(r.out)
           /\ readyState' = IF thrown THEN [readyState EXCEPT ![c] = "CLOSED"]
                            ELSE readyState
           /\ last' = Did("onmessage", Some(frame), r.out)
    /\ UNCHANGED <<variant, step, wsConnections, globalConnections, newMessage,
                   hview, timers, pending, now, modal, mounted>>

\* ws.onmessage
onmessage(c, frame) ==
    /\ readyState[c] = "OPEN"
    /\ ninputs < MaxInputs
    /\ ninputs' = ninputs + 1
    /\ LET r == route(frame)
       IN  /\ userProfiles' = r.userProfiles
           /\ user' = r.user
           /\ globalUser' = r.globalUser
           /\ subscribedUsers' = r.subscribedUsers
           /\ messages' = r.messages
           /\ sent' = Wire(r.out)
           /\ last' = Did("onmessage", Some(frame), r.out)
    /\ UNCHANGED <<variant, step, wsConnections, globalConnections, newMessage,
                   hview, readyState, timers, pending, now, modal, mounted>>

\* ws.onerror only logs
onerror(c) ==
    /\ readyState[c] \in {"CONNECTING", "OPEN"}
    /\ ninputs < MaxInputs
    /\ ninputs' = ninputs + 1
    /\ last' = Did("onerror", None, Quiet)
    /\ UNCHANGED <<variant, step, user, globalUser, messages, wsConnections,
                   globalConnections, userProfiles, subscribedUsers, newMessage,
                   hview, readyState, sent, timers, pending, now, modal,
                   mounted>>

\* an onclose that dials the relay again
oncloseReconnect(c) ==
    /\ readyState[c] \in {"CONNECTING", "OPEN"}
    /\ ninputs < MaxInputs
    /\ ninputs' = ninputs + 1
    /\ readyState' = [readyState EXCEPT ![c] = "CONNECTING"]
    /\ last' = Did("onclose", None, Quiet)
    /\ UNCHANGED <<variant, step, user, globalUser, messages, wsConnections,
                   globalConnections, userProfiles, subscribedUsers, newMessage,
                   hview, sent, timers, pending, now, modal, mounted>>

\* the transport closes (refused, dropped, or closed by the relay); ws.onclose
\* only logs
onclose(c) ==
    /\ readyState[c] \in {"CONNECTING", "OPEN"}
    /\ ninputs < MaxInputs
    /\ ninputs' = ninputs + 1
    /\ readyState' = [readyState EXCEPT ![c] = "CLOSED"]
    /\ last' = Did("onclose", None, Quiet)
    /\ UNCHANGED <<variant, step, user, globalUser, messages, wsConnections,
                   globalConnections, userProfiles, subscribedUsers, newMessage,
                   hview, sent, timers, pending, now, modal, mounted>>

---------------------------------------------------------------------------
(* Timers *)

\* setTimeout(() => { if (subscribedUsers.size > 0) subscribeAllProfiles() }, 500)
settleFrames ==
    IF Len(hview.subscribedUsers) > 0 THEN subscribeAllProfiles(hview, None, Quiet)
    ELSE Quiet

settleTimer(c) ==
    /\ Timer("subscribeAllProfiles", c, "", "", "") \in timers
    /\ timers' = timers \ {Timer("subscribeAllProfiles", c, "", "", "")}
    /\ sent' = Wire(settleFrames)
    /\ last' = Did("settleTimer", None, settleFrames)
    /\ UNCHANGED <<variant, step, user, globalUser, messages, wsConnections,
                   globalConnections, userProfiles, subscribedUsers, newMessage,
                   hview, readyState, pending, now, modal, mounted, ninputs>>

\* setTimeout(() => subscribeToUserProfile(pubkey), 1000) of handleSignIn
signInTimer ==
    \E t \in timers :
        /\ t.cb = "subscribeToUserProfile"
        /\ timers' = timers \ {t}
        /\ sent' = Wire(subscribeToUserProfile(hview, t.pubkey, Quiet))
        /\ last' = Did("signInTimer", None,
                       subscribeToUserProfile(hview, t.pubkey, Quiet))
        /\ UNCHANGED <<variant, step, user, globalUser, messages, wsConnections,
                       globalConnections, userProfiles, subscribedUsers,
                       newMessage, hview, readyState, pending, now, modal,
                       mounted, ninputs>>

\* an async call suspended on the digest
Suspended(op, snap, signed, connections, name, pubkey, privateKey) ==
    [op |-> op, snap |-> snap, signed |-> signed, connections |-> connections,
     name |-> name, pubkey |-> pubkey, privateKey |-> privateKey]

\* sendProfileEvent up to `await crypto.subtle.digest`; t.conn = 0 when the
\* connections argument is omitted
sendProfileEventStart(t) ==
    Suspended("sendProfileEvent", hview,
              signedTemplate(profileTemplate(t.name, t.pubkey, now \div 1000),
                             t.privateKey),
              IF t.conn # 0 THEN <<t.conn>> ELSE globalConnections,
              t.name, t.pubkey, t.privateKey)

profileTimer ==
    \E t \in timers :
        /\ t.cb = "sendProfileEvent"
        /\ timers' = timers \ {t}
        /\ pending' = Append(pending, sendProfileEventStart(t))
        /\ last' = Did("profileTimer", None, Quiet)
        /\ UNCHANGED <<variant, step, user, globalUser, messages, wsConnections,
                       globalConnections, userProfiles, subscribedUsers,
                       newMessage, hview, readyState, sent, now, modal,
                       mounted, ninputs>>

RemoveAt(seq, i) == SubSeq(seq, 1, i - 1) \o SubSeq(seq, i + 1, Len(seq))

\* frames sendProfileEvent sends once the digest is known
sendProfileEventFrames(p) ==
    IF Len(p.connections) = 0 THEN Quiet
    ELSE sendToOpen(p.connections, EventFrame(finalEvent(p.signed)), Quiet)

\* sendProfileEvent after the digest
sendProfileEventFinish(i) ==
    /\ i \in 1..Len(pending)
    /\ pending[i].op = "sendProfileEvent"
    /\ LET p == pending[i]
       IN  /\ pending' = RemoveAt(pending, i)
           /\ timers' = IF Len(p.connections) = 0
                        THEN timers \cup {Timer("sendProfileEvent", 0, p.name,
                                                p.pubkey, p.privateKey)}
                        ELSE timers
           /\ sent' = Wire(sendProfileEventFrames(p))
           /\ last' = Did("sendProfileEventFinish", None,
                          sendProfileEventFrames(p))
    /\ UNCHANGED <<variant, step, user, globalUser, messages, wsConnections,
                   globalConnections, userProfiles, subscribedUsers, newMessage,
                   hview, readyState, now, modal, mounted, ninputs>>

\* crypto.subtle.digest rejects (or crypto.subtle is missing): the catch of the
\* suspended call logs and the call ends
digestRejected(i) ==
    /\ i \in 1..Len(pending)
    /\ ninputs < MaxInputs
    /\ ninputs' = ninputs + 1
    /\ pending' = RemoveAt(pending, i)
    /\ last' = Did("digestRejected", None, Quiet)
    /\ UNCHANGED <<variant, step, user, globalUser, messages, wsConnections,
                   globalConnections, userProfiles, subscribedUsers, newMessage,
                   hview, readyState, sent, timers, now, modal, mounted>>

---------------------------------------------------------------------------
(* User interface handlers (closures of the latest render: they read view) *)

Drafts == {"hi", " "}

\* onChange of the draft input
setNewMessage(text) ==
    /\ mounted /\ step = "chat"
    /\ text # newMessage
    /\ newMessage' = text
    /\ last' = Did("setNewMessage", None, Quiet)
    /\ UNCHANGED <<variant, step, user, globalUser, messages, wsConnections,
                   globalConnections, userProfiles, subscribedUsers, hview,
                   readyState, sent, timers, pending, now, modal, mounted,
                   ninputs>>

\* a handleSendMessage without the guard on the draft and the user
handleSendMessageUnguarded ==
    /\ mounted /\ step = "chat"
    /\ ninputs < MaxInputs
    /\ ninputs' = ninputs + 1
    /\ view.user # None
    /\ pending' =
          Append(pending,
                 Suspended("handleSendMessage", view,
                           signedTemplate(
                               channelTemplate(view.newMessage,
                                               view.user[1].pubkey,
                                               now \div 1000),
                               view.user[1].privateKey),
                           <<>>, view.user[1].name, view.user[1].pubkey,
                           view.user[1].privateKey))
    /\ last' = Did("handleSendMessage", None, Quiet)
    /\ UNCHANGED <<variant, step, user, globalUser, messages, wsConnections,
                   globalConnections, userProfiles, subscribedUsers, newMessage,
                   hview, readyState, sent, timers, now, modal, mounted>>

\* handleSendMessage up to `await crypto.subtle.digest`
handleSendMessageStart ==
    /\ mounted /\ step = "chat"
    /\ ninputs < MaxInputs
    /\ ninputs' = ninputs + 1
    /\ pending' =
          IF trim(view.newMessage) = "" \/ view.user = None THEN pending
          ELSE Append(pending,
                      Suspended("handleSendMessage", view,
                                signedTemplate(
                                    channelTemplate(view.newMessage,
                                                    view.user[1].pubkey,
                                                    now \div 1000),
                                    view.user[1].privateKey),
                                <<>>, view.user[1].name, view.user[1].pubkey,
                                view.user[1].privateKey))
    /\ last' = Did("handleSendMessage", None, Quiet)
    /\ UNCHANGED <<variant, step, user, globalUser, messages, wsConnections,
                   globalConnections, userProfiles, subscribedUsers, newMessage,
                   hview, readyState, sent, timers, now, modal, mounted>>

\* handleSendMessage after the digest: broadcast, local echo, clear the draft,
\* addUserToSubscription
handleSendMessageFinish(i) ==
    /\ i \in 1..Len(pending)
    /\ pending[i].op = "handleSendMessage"
    /\ LET p == pending[i]
           event == finalEvent(p.signed)
           broadcast == sendToOpen(p.snap.wsConnections, EventFrame(event), Quiet)
           message == localMessage(event, p.snap.newMessage, p.pubkey, now)
           added == addUserToSubscription(p.snap, p.pubkey, subscribedUsers,
                                          broadcast)
       IN  /\ pending' = RemoveAt(pending, i)
           /\ messages' = insertLocal(messages, message)
           /\ newMessage' = ""
           /\ subscribedUsers' = added.subscribedUsers
           /\ sent' = Wire(added.out)
           /\ last' = Did("handleSendMessageFinish", None, added.out)
    /\ UNCHANGED <<variant, step, user, globalUser, wsConnections,
                   globalConnections, userProfiles, hview, readyState,
                   timers, now, modal, mounted, ninputs>>

\* v1 only: the debug button
forceSubscribeAll ==
    /\ variant = "v1" /\ mounted /\ step = "chat"
    /\ ninputs < MaxInputs
    /\ ninputs' = ninputs + 1
    /\ sent' = Wire(subscribeAllProfiles(view, None, Quiet))
    /\ last' = Did("forceSubscribeAll", None,
                   subscribeAllProfiles(view, None, Quiet))
    /\ UNCHANGED <<variant, step, user, globalUser, messages, wsConnections,
                   globalConnections, userProfiles, subscribedUsers, newMessage,
                   hview, readyState, timers, pending, now, modal, mounted>>

\* the cleanup of an effect without dependencies: it reads the empty connection
\* list of the first render and closes nothing
unmountFirstRender ==
    /\ mounted
    /\ ninputs < MaxInputs
    /\ ninputs' = ninputs + 1
    /\ mounted' = FALSE
    /\ last' = Did("unmount", None, Quiet)
    /\ UNCHANGED <<variant, step, user, globalUser, messages, wsConnections,
                   globalConnections, userProfiles, subscribedUsers, newMessage,
                   hview, readyState, sent, timers, pending, now, modal>>

\* cleanup of the useEffect on [wsConnections] when App unmounts
unmount ==
    /\ mounted
    /\ ninputs < MaxInputs
    /\ ninputs' = ninputs + 1
    /\ mounted' = FALSE
    /\ readyState' = [c \in Conns |->
                        IF c \in Range(view.wsConnections) /\ readyState[c] = "OPEN"
                        THEN "CLOSED" ELSE readyState[c]]
    /\ last' = Did("unmount", None, Quiet)
    /\ UNCHANGED <<variant, step, user, globalUser, messages, wsConnections,
                   globalConnections, userProfiles, subscribedUsers, newMessage,
                   hview, sent, timers, pending, now, modal>>

\* time passes
tick ==
    /\ ninputs < MaxInputs
    /\ ninputs' = ninputs + 1
    /\ now' = now + TickMs
    /\ last' = Did("tick", None, Quiet)
    /\ UNCHANGED <<variant, step, user, globalUser, messages, wsConnections,
                   globalConnections, userProfiles, subscribedUsers, newMessage,
                   hview, readyState, sent, timers, pending, modal, mounted>>

---------------------------------------------------------------------------

Next ==
    \/ handleSignIn
    \/ handleSignUp
    \/ cancelSignUp
    \/ proceedWithSignUp
    \/ handleLogin
    \/ \E c \in Conns : onopen(c)
    \/ \E c \in Conns : \E frame \in RelayFrames(c) : onmessage(c, frame)
    \/ \E c \in Conns : onerror(c)
    \/ \E c \in Conns : onclose(c)
    \/ \E c \in Conns : settleTimer(c)
    \/ signInTimer
    \/ profileTimer
    \/ \E i \in 1..Len(pending) : sendProfileEventFinish(i)
    \/ \E text \in Drafts : setNewMessage(text)
    \/ handleSendMessageStart
    \/ \E i \in 1..Len(pending) : handleSendMessageFinish(i)
    \/ \E i \in 1..Len(pending) : digestRejected(i)
    \/ forceSubscribeAll
    \/ unmount
    \/ tick

Spec == Init /\ [][Next]_vars

\* the step of Next that runs a due sendProfileEvent timer (profileTimer),
\* told by what it does to the timer set
ProfileTimerRuns ==
    \E t \in timers : t.cb = "sendProfileEvent" /\ timers' = timers \ {t}

\* the step of Next that resumes a call of `op` whose digest has resolved
\* (sendProfileEventFinish, handleSendMessageFinish), told by what it does to
\* the suspended calls; a rejected digest counts as an input
Resumes(op) ==
    \E i \in 1..Len(pending) :
        /\ pending[i].op = op
        /\ pending' = RemoveAt(pending, i)
        /\ ninputs' = ninputs

\* The event loop runs every timer that is due and resumes every call whose
\* digest has resolved; relays, the user and the clock owe nothing.
Fairness ==
    /\ WF_timers(ProfileTimerRuns)
    /\ WF_vars(signInTimer)
    /\ \A c \in Conns : WF_vars(settleTimer(c))
    /\ WF_<<pending, ninputs>>(Resumes("sendProfileEvent"))
    /\ WF_<<pending, ninputs>>(Resumes("handleSendMessage"))

LiveSpec == Spec /\ Fairness

---------------------------------------------------------------------------
(* Properties of the engine.  The helpers below read the latest step.      *)

\* the event of the relay frame the latest step was given, when that step was
\* ws.onmessage with an ["EVENT", subId, event] frame of kind 1
DeliveredNote(l) ==
    /\ l.op = "onmessage"
    /\ l.frame # None
    /\ l.frame[1].json
    /\ Len(l.frame[1].data) >= 3
    /\ l.frame[1].data[1] = "EVENT"
    /\ l.frame[1].data[3].kind = 1

DeliveredEvent(l) == l.frame[1].data[3]

\* the tags of the event contain an entry ["t", channelId]
TaggedForChannel(event) ==
    /\ Has(event, "tags")
    /\ \E j \in 1..Len(event.tags) :
          /\ Len(event.tags[j]) >= 2
          /\ SubSeq(event.tags[j], 1, 2) = <<"t", getChannelId>>

\* the bulk profile REQs among the frames a step sent on one connection
BulkReqs(frames) == {i \in 1..Len(frames) : IsProfilesAllReq(frames[i])}

\* the latest step handed pubkey p to the registry: an accepted channel
\* message of p, or a local send of the user p
Adds(p) ==
    \/ /\ DeliveredNote(last)
       /\ TaggedForChannel(DeliveredEvent(last))
       /\ DeliveredEvent(last).pubkey = p
    \/ /\ last.op = "handleSendMessageFinish"
       /\ user # None
       /\ user[1].pubkey = p

\* the channel notes this client has published on some connection
PublishedNotes ==
    {f.event : f \in {g \in UNION {sent[c] : c \in Conns} :
                        g.verb = "EVENT" /\ g.event.kind = 1}}

\* C1: no two records of the Message Store have the same id
NoDuplicateIds ==
    \A i, j \in 1..Len(messages) : messages[i].id = messages[j].id => i = j

\* C2: the message list is sorted ascending by record timestamp in every state
SortedByTime ==
    \A i \in 1..Len(messages) - 1 : messages[i].time <= messages[i + 1].time

\* C3: every record of the Message Store comes from a kind-1 event whose tags
\* contain ["t", channelId]: an event without that tag is never inserted
OnlyChannelNotesStored ==
    \A i \in 1..Len(messages) :
        /\ messages[i].event.kind = 1
        /\ TaggedForChannel(messages[i].event)

\* C3: a relay has just delivered a kind-1 event without the channel tag to a
\* session whose store already holds a message
UntaggedNoteDelivered ==
    /\ DeliveredNote(last)
    /\ ~TaggedForChannel(DeliveredEvent(last))
    /\ Len(messages) > 0

\* C4: every channel note this client published has kind 1, the tags
\* [["t", channelId]] and, once fed back through the inbound router, exactly
\* one record in the Message Store, whose text is the content of the note
RoundTrip ==
    \A e \in PublishedNotes :
        LET r == route(EventMsg(e))
            held == {i \in 1..Len(r.messages) : r.messages[i].id = e.id}
        IN  /\ e.tags = << <<"t", getChannelId>> >>
            /\ Cardinality(held) = 1
            /\ \A i \in held : r.messages[i].text = e.content

\* C5: in every step the new author registry is a superset of the previous one
RegistryGrowsMonotonically ==
    [][Range(subscribedUsers) \subseteq Range(subscribedUsers')]_vars

\* C6: a step that adds an author who is already in the registry leaves the
\* registry size unchanged and sends no bulk profile REQ on any connection
AddingTwiceIsSilent ==
    [][\A p \in Range(subscribedUsers) :
          Adds(p)' =>
              /\ Len(subscribedUsers') = Len(subscribedUsers)
              /\ \A c \in Conns : BulkReqs(last'.out[c]) = {}]_vars

\* C7: a step that adds a new author sends exactly one "profiles_all" REQ on
\* every Open connection, and its authors are all the previously registered
\* authors plus the new one, which is the whole registry after the step
NewAuthorResubscribesAll ==
    [][\A p \in Range(subscribedUsers') \ Range(subscribedUsers) :
          \A c \in Conns :
              readyState'[c] = "OPEN" =>
                  /\ Cardinality(BulkReqs(last'.out[c])) = 1
                  /\ \A i \in BulkReqs(last'.out[c]) :
                        /\ Range(last'.out[c][i].filter.authors)
                              = Range(subscribedUsers) \cup {p}
                        /\ Range(last'.out[c][i].filter.authors)
                              = Range(subscribedUsers')]_vars

\* C8: after login the registry holds the user's own pubkey and the pubkey of
\* the sender of every accepted channel message
RegistryHoldsSelfAndSenders ==
    step = "chat" =>
        /\ user # None
        /\ SetHas(subscribedUsers, user[1].pubkey)
        /\ \A i \in 1..Len(messages) : SetHas(subscribedUsers, messages[i].sender)

\* C9: when the settle timer of a connection fires while the connection is
\* Open and the registry is not empty, the bulk profile REQ for the registry
\* is sent on that connection
SettleTimerResubscribes ==
    [][\A c \in Conns :
          (/\ last'.op = "settleTimer"
           /\ Timer("subscribeAllProfiles", c, "", "", "") \in timers
           /\ Timer("subscribeAllProfiles", c, "", "", "") \notin timers'
           /\ readyState[c] = "OPEN"
           /\ Len(subscribedUsers) > 0)
          => \E i \in 1..Len(last'.out[c]) :
                last'.out[c][i] = ProfilesAllReq(subscribedUsers)]_vars

\* C10: a step sends the channel-feed REQ on a connection exactly when that
\* connection opens in that step, and then once; a connection opens at most
\* once, and the registry plays no part
ChannelReqOnceAtOpen ==
    [][\A c \in Conns :
          LET reqs == {i \in 1..Len(last'.out[c]) : IsChannelReq(last'.out[c][i])}
          IN  /\ Cardinality(reqs) =
                    (IF readyState[c] = "CONNECTING" /\ readyState'[c] = "OPEN"
                     THEN 1 ELSE 0)
              /\ readyState[c] \in {"OPEN", "CLOSED"} => readyState'[c] # "CONNECTING"]_vars

\* C10: a connection has just opened and its handler sent the channel-feed REQ
\* while the other connection, already open, got nothing
ChannelReqSentAtOpen ==
    /\ last.op = "onopen"
    /\ \E c \in Conns :
          /\ last.out[c] = <<ChannelReq>>
          /\ \A d \in Conns \ {c} : readyState[d] = "OPEN" /\ last.out[d] = <<>>

\* a connection that opens in the step
Opens(c) == readyState[c] = "CONNECTING" /\ readyState'[c] = "OPEN"

\* C11: when a connection opens while the user is logged in, the deferred send
\* of the user's profile event to that connection alone is armed
OpenArmsOwnProfileSend ==
    [][\A c \in Conns :
          (Opens(c) /\ user # None) =>
              \E t \in timers' \ timers :
                  /\ t.cb = "sendProfileEvent"
                  /\ t.conn = c
                  /\ t.pubkey = user[1].pubkey]_vars

\* the ["EVENT", event] frames among the frames a step sent on one connection
EventFrames(frames) == SelectSeq(frames, LAMBDA f : f.verb = "EVENT")

\* the step is the broadcast of a suspended handleSendMessage or sendProfileEvent
Broadcasts(l) == l.op \in {"handleSendMessageFinish", "sendProfileEventFinish"}

\* C12: a broadcast sends ["EVENT", event] once on every connection that is
\* Open at that moment and on no other; no other step sends an EVENT frame,
\* so nothing is delivered later to a connection that opens afterwards
BroadcastReachesOpenOnly ==
    [][IF Broadcasts(last')
       THEN \E i \in 1..Len(pending) :
               /\ pending' = RemoveAt(pending, i)
               /\ \A c \in Conns :
                     EventFrames(last'.out[c]) =
                        IF readyState[c] = "OPEN"
                        THEN <<EventFrame(finalEvent(pending[i].signed))>>
                        ELSE <<>>
       ELSE \A c \in Conns : EventFrames(last'.out[c]) = <<>>]_vars

\* C12: a channel message has just been broadcast: an Open connection got the
\* frame while a connection still Connecting or already Closed got nothing
BroadcastSkippedOne ==
    /\ last.op = "handleSendMessageFinish"
    /\ \E c, d \in Conns :
          /\ readyState[c] = "OPEN"
          /\ Len(EventFrames(last.out[c])) = 1
          /\ readyState[d] \in {"CONNECTING", "CLOSED"}
          /\ last.out[d] = <<>>

\* C13: a channel message sent while no connection is Open sends no frame and
\* adds exactly one record to the Message Store, the only one with the id of
\* the event
SendWithoutRelaysEchoesOnce ==
    [][(/\ last'.op = "handleSendMessageFinish"
        /\ \A c \in Conns : readyState[c] # "OPEN")
       => \E i \in 1..Len(pending) :
             LET event == finalEvent(pending[i].signed)
                 held == {k \in 1..Len(messages') : messages'[k].id = event.id}
             IN  /\ pending' = RemoveAt(pending, i)
                 /\ last'.out = Quiet
                 /\ Len(messages') = Len(messages) + 1
                 /\ Cardinality(held) = 1]_vars

\* C14: whatever happens to the other relay, a socket that was created is in
\* the connection lists, gets the channel REQ when it opens and gets every
\* later broadcast while it is Open; an error or a close of one connection
\* changes no other connection
RelaysAreIndependent ==
    [][/\ \A c \in Conns :
            /\ (step' = "chat" /\ readyState'[c] # "NONE") =>
                    /\ c \in Range(wsConnections')
                    /\ c \in Range(globalConnections')
            /\ Opens(c) => last'.out[c] = <<ChannelReq>>
            /\ (Broadcasts(last') /\ readyState[c] = "OPEN") =>
                    Len(EventFrames(last'.out[c])) = 1
       /\ last'.op \in {"onerror", "onclose"} =>
            Cardinality({c \in Conns : readyState'[c] # readyState[c]}) <= 1]_vars

\* C14: the first relay could not be reached (its constructor threw, or its
\* connection closed) and a channel message has just been broadcast on the
\* second one, which had opened and subscribed to the channel
BroadcastOnSurvivingRelay ==
    /\ readyState[1] \in {"NONE", "CLOSED"}
    /\ readyState[2] = "OPEN"
    /\ ChannelReq \in sent[2]
    /\ last.op = "handleSendMessageFinish"
    /\ Len(EventFrames(last.out[2])) = 1

\* C15: the teardown closes every connection that is Open, and no step ever
\* calls ws.send on a connection that is not Open: a deferred or suspended
\* send toward a closed connection is skipped
TeardownClosesAndSendsSkip ==
    [][/\ (mounted /\ ~mounted') =>
            \A c \in Conns : readyState[c] = "OPEN" => readyState'[c] = "CLOSED"
       /\ \A c \in Conns : last'.out[c] # <<>> => readyState'[c] = "OPEN"]_vars

\* C15: after the teardown closed a connection, a channel message that was
\* awaiting its digest has resumed and skipped the closed connection
SendSkippedAfterTeardown ==
    /\ ~mounted
    /\ last.op = "handleSendMessageFinish"
    /\ last.out = Quiet
    /\ \E c \in Range(wsConnections) : readyState[c] = "CLOSED"

\* the latest step was ws.onmessage with an ["EVENT", subId, event] frame
\* whose event has kind 0
DeliveredProfile(l) ==
    /\ l.op = "onmessage"
    /\ l.frame # None
    /\ l.frame[1].json
    /\ Len(l.frame[1].data) >= 3
    /\ l.frame[1].data[1] = "EVENT"
    /\ l.frame[1].data[3].kind = 0

\* C17: a kind-0 event whose content is not JSON changes neither the Profile
\* Store, the Message Store, the registry nor the user, and sends no frame
UnparseableProfileIgnored ==
    [][(DeliveredProfile(last') /\ JSONparse(DeliveredEvent(last').content) = None)
       => /\ UNCHANGED <<userProfiles, messages, subscribedUsers, user, globalUser>>
          /\ last'.out = Quiet]_vars

\* C17: a kind-0 event with content that is not JSON has just been delivered
\* to a session whose Profile Store already holds an entry
UnparseableProfileDelivered ==
    /\ DeliveredProfile(last)
    /\ JSONparse(DeliveredEvent(last).content) = None
    /\ DOMAIN userProfiles # {}

\* a frame that is not JSON, whose first element is not "EVENT", or that has
\* no event element
Malformed(frame) ==
    \/ ~frame.json
    \/ Len(frame.data) = 0
    \/ frame.data[1] # "EVENT"
    \/ Len(frame.data) < 3

\* C18: a malformed inbound frame changes no store, registry, user, timer or
\* connection and sends nothing; its connection stays Open, so the handler
\* goes on receiving frames
MalformedFrameDiscarded ==
    [][(last'.op = "onmessage" /\ Malformed(last'.frame[1]))
       => /\ UNCHANGED <<messages, userProfiles, subscribedUsers, user,
                         globalUser, readyState, wsConnections,
                         globalConnections, timers, pending, step>>
          /\ last'.out = Quiet
          /\ \E c \in Conns : readyState'[c] = "OPEN"]_vars

\* C18: a malformed frame has just been delivered to a session that had
\* already stored a message
MalformedFrameDelivered ==
    /\ last.op = "onmessage"
    /\ Malformed(last.frame[1])
    /\ Len(messages) > 0

\* the canonical serialization [0, pubkey, created_at, kind, tags, content]
CanonicalSerialization(e) ==
    "[0," \o JsonString(e.pubkey) \o "," \o ToString(e.created_at) \o ","
          \o ToString(e.kind) \o "," \o JsonTags(e.tags) \o ","
          \o JsonString(e.content) \o "]"

\* the signed events this client built: those it sent, and those of its
\* local echoes
FactoryEvents ==
    {f.event : f \in {g \in UNION {sent[c] : c \in Conns} : g.verb = "EVENT"}}
        \cup {messages[i].event :
                i \in {k \in 1..Len(messages) : Has(messages[k].event, "sig")}}

\* C20: the id of every event built by handleSendMessage or sendProfileEvent
\* is the SHA-256 digest of the canonical serialization of the event's own
\* fields, and events with equal fields have equal ids
IdIsDigestOfOwnFields ==
    /\ \A e \in FactoryEvents : e.id = sha256(CanonicalSerialization(e))
    /\ \A e1, e2 \in FactoryEvents :
          CanonicalSerialization(e1) = CanonicalSerialization(e2) => e1.id = e2.id

\* C20: the client has published a profile event and a channel message
ProfileAndNotePublished ==
    /\ \E e \in FactoryEvents : e.kind = 0
    /\ \E e \in FactoryEvents : e.kind = 1

\* a kind-0 event whose content parses was delivered
DeliveredParseableProfile(l) ==
    DeliveredProfile(l) /\ JSONparse(DeliveredEvent(l).content) # None

\* the display name a profile event gives its author
NameOf(event) ==
    LET profile == JSONparse(event.content)[1]
    IN  IF Has(profile, "name") /\ profile.name # "" THEN profile.name
        ELSE "User_" \o substring0(event.pubkey, 8)

SelfProfileRefreshesName ==
    [][(/\ DeliveredParseableProfile(last')
        /\ user # None
        /\ DeliveredEvent(last').pubkey = user[1].pubkey)
          => user' = Some([user[1] EXCEPT !.name = NameOf(DeliveredEvent(last'))])]_vars

\* the events of the EVENT frames passed to ws.send so far
SentEvents ==
    {f.event : f \in {g \in UNION {sent[c] : c \in Conns} : g.verb = "EVENT"}}

\* sig is a Schnorr signature over id under some key
SignedOver(sig, id) ==
    \E k \in {SignInKey, GeneratedKey} :
        sig = "schnorr(" \o getPublicKey(k) \o "," \o id \o ")"

\* C21: in every event construction the signature is computed after the
\* digest step has completed and over the id that step produced: no call that
\* still awaits its digest holds a signature, and the sig of every event built
\* is a signature over the event's id
SignedAfterDigest ==
    /\ \A i \in 1..Len(pending) : ~Has(pending[i].signed, "sig")
    /\ \A e \in FactoryEvents : SignedOver(e.sig, e.id)

\* sig verifies against the event's pubkey and id
Verifies(e) == e.sig = "schnorr(" \o e.pubkey \o "," \o e.id \o ")"

\* C22: the sig of every event the client has published is a signature that
\* verifies against the event's pubkey and id, never a padded, truncated or
\* substitute value
PublishedSignaturesVerify == \A e \in SentEvents : Verifies(e)

\* C23: a send whose digest or whose signing primitive fails transmits no
\* EVENT frame and inserts no message record
FailedSendPublishesNothing ==
    [][/\ last'.op = "digestRejected" =>
            /\ \A c \in Conns : last'.out[c] = <<>>
            /\ sent' = sent
            /\ messages' = messages
       /\ (/\ last'.op = "handleSendMessageFinish"
           /\ user # None
           /\ ~validSecretKey(user[1].privateKey)) =>
            /\ \A c \in Conns : EventFrames(last'.out[c]) = <<>>
            /\ messages' = messages]_vars

\* C24: the session's pubkey is the public key the key-derivation primitive
\* yields for the session's private key, never a fallback hash
SessionKeyIsDerived ==
    user # None =>
        /\ validSecretKey(user[1].privateKey)
        /\ user[1].pubkey = getPublicKey(user[1].privateKey)

\* the string k occurs in the string s
Contains(s, k) ==
    \E i \in 1..(Len(s) - Len(k) + 1) : SubSeq(s, i, i + Len(k) - 1) = k

\* every string a frame carries
FrameStrings(f) ==
    IF f.verb = "REQ"
    THEN {f.sub}
            \cup (IF Has(f.filter, "authors") THEN Range(f.filter.authors) ELSE {})
            \cup (IF Has(f.filter, "t") THEN Range(f.filter.t) ELSE {})
    ELSE {f.event.pubkey, f.event.content, f.event.id, f.event.sig}
            \cup UNION {Range(f.event.tags[i]) : i \in 1..Len(f.event.tags)}

\* C25: no frame passed to ws.send, REQ or EVENT, carries the private key of
\* the local user in any of its strings
PrivateKeyStaysLocal ==
    [][user' # None =>
          \A c \in Conns : \A i \in 1..Len(last'.out[c]) :
              \A str \in FrameStrings(last'.out[c][i]) :
                  ~Contains(str, user'[1].privateKey)]_vars

\* C25: a signed-in user has sent a subscription and an event on a connection
KeyHolderHasPublished ==
    /\ user # None
    /\ \E c \in Conns : \E f, g \in sent[c] : f.verb = "EVENT" /\ g.verb = "REQ"

\* C26: an error or a close of a connection is not fatal and nothing
\* reconnects: an error observation changes no engine state, a transport close
\* changes the state of its own connection only, a connection only moves
\* from Connecting to Open and from either to Closed, a Closed connection stays
\* Closed, after login the connection lists never change and no new socket is
\* created, and no frame is sent on a connection that has closed
NoReconnectAfterClose ==
    [][/\ last'.op = "onerror" =>
            UNCHANGED <<variant, step, user, globalUser, messages, wsConnections,
                        globalConnections, userProfiles, subscribedUsers,
                        newMessage, hview, readyState, sent, timers, pending,
                        now, modal, mounted>>
       /\ last'.op = "onclose" =>
            UNCHANGED <<variant, step, user, globalUser, messages, wsConnections,
                        globalConnections, userProfiles, subscribedUsers,
                        newMessage, hview, sent, timers, pending, now, modal,
                        mounted>>
       /\ \A c \in Conns :
            /\ readyState[c] = "CLOSED" => readyState'[c] = "CLOSED"
            /\ readyState'[c] # readyState[c] =>
                  <<readyState[c], readyState'[c]>> \in
                      {<<"NONE", "CONNECTING">>, <<"CONNECTING", "OPEN">>,
                       <<"CONNECTING", "CLOSED">>, <<"OPEN", "CLOSED">>}
            /\ (step = "chat" /\ readyState[c] = "NONE") => readyState'[c] = "NONE"
            /\ readyState[c] = "CLOSED" => last'.out[c] = <<>>
       /\ step = "chat" =>
            UNCHANGED <<wsConnections, globalConnections>>]_vars

\* C26: after one connection closed, a message was broadcast: the closed
\* connection, which had been Open, got nothing and the other one got the event
BroadcastAfterClose ==
    /\ last.op = "handleSendMessageFinish"
    /\ \E c, d \in Conns :
          /\ readyState[c] = "CLOSED" /\ mounted
          /\ sent[c] # {}
          /\ last.out[c] = <<>>
          /\ readyState[d] = "OPEN"
          /\ Len(EventFrames(last.out[d])) = 1

\* e is a profile event for the given name: kind 0, no tags, and a content
\* that is the JSON text of {name, about, picture}
IsProfileEventFor(e, name) ==
    /\ e.kind = 0
    /\ e.tags = <<>>
    /\ e.content =
          JsonObject([name |-> name,
                      about |-> "Nostr IM user - " \o name,
                      picture |-> "https://api.dicebear.com/7.x/avataaars/svg?seed="
                                    \o substring0(e.pubkey, 8)])

\* C27: every event sendProfileEvent builds, whether still awaiting its digest
\* or sent, has kind 0, empty tags and as content the JSON text of the given
\* name, the about line derived from it and the avatar URL of the first 8
\* characters of the pubkey
ProfileEventShape ==
    [][/\ \A i \in 1..Len(pending') :
            pending'[i].op = "sendProfileEvent" =>
                /\ IsProfileEventFor(pending'[i].signed, pending'[i].name)
                /\ pending'[i].signed.pubkey = pending'[i].pubkey
       /\ last'.op = "sendProfileEventFinish" =>
            \E i \in 1..Len(pending) :
                /\ pending' = RemoveAt(pending, i)
                /\ \A c \in Conns : \A f \in Range(EventFrames(last'.out[c])) :
                      /\ IsProfileEventFor(f.event, pending[i].name)
                      /\ f.event.pubkey = pending[i].pubkey]_vars

\* C27: sendProfileEvent has just sent its event on a connection
ProfileEventSent ==
    /\ last.op = "sendProfileEventFinish"
    /\ \E c \in Conns : \E f \in Range(last.out[c]) :
          f.verb = "EVENT" /\ f.event.kind = 0

\* accepted kind-1 events without an id that a relay may deliver: the one the
\* relays of the model deliver, and another text from another pubkey with the
\* same first 8 characters at the same second
IdlessEvents ==
    { note(Sender2, 1, channelTags, "yo"),
      note(substring0(Sender2, 8) \o "99", 1, channelTags, "again") }

SynthesizedKey(e) ==
    "received_" \o ToString(e.created_at) \o "_" \o substring0(e.pubkey, 8)

KeyedBy(list, key) == {i \in 1..Len(list) : list[i].id = key}

\* C28: an accepted kind-1 event without an id is stored under the key
\* "received_" + created_at + "_" + first 8 characters of the pubkey, and only
\* if no record has that key: the store never holds two records of one such
\* key, and delivering such an event adds one record of that key when there is
\* none and changes nothing when there is one
IdlessEventsKeyedOnce ==
    \A e \in IdlessEvents :
        LET key == SynthesizedKey(e)
            after == route(EventMsg(e)).messages
        IN  /\ Cardinality(KeyedBy(messages, key)) <= 1
            /\ IF KeyedBy(messages, key) # {} THEN after = messages
               ELSE /\ Len(after) = Len(messages) + 1
                    /\ Cardinality(KeyedBy(after, key)) = 1
                    /\ \A i \in KeyedBy(after, key) : after[i].event = e

\* C28: a relay has delivered an event without an id, and the store holds the
\* record of its synthesized key
IdlessEventStored ==
    /\ DeliveredNote(last)
    /\ ~Has(DeliveredEvent(last), "id")
    /\ hasChannelTag(DeliveredEvent(last))
    /\ Cardinality(KeyedBy(messages, SynthesizedKey(DeliveredEvent(last)))) = 1

\* a sendProfileEvent call is due or suspended
ProfileSendInFlight ==
    \/ \E t \in timers : t.cb = "sendProfileEvent"
    \/ \E i \in 1..Len(pending) : pending[i].op = "sendProfileEvent"

\* C29: the chain of retries of sendProfileEvent stops: from some moment on no
\* sendProfileEvent call is due or suspended, also when the connection list is
\* empty
ProfileRetryStops == <>[](~ProfileSendInFlight)

\* the session began with handleSignIn
SignedIn ==
    /\ variant = "v2"
    /\ user # None
    /\ user[1].privateKey \in SignInKeys

\* a kind-0 subscription naming the local pubkey was sent on c
OwnProfileRequested(c) ==
    \E f \in sent[c] :
        /\ f.verb = "REQ"
        /\ f.filter.kinds = <<0>>
        /\ user[1].pubkey \in Range(f.filter.authors)

\* C30: after a sign-in, a connection that is Open gets a kind-0 subscription
\* naming the local pubkey, whenever it opened, unless it closes first
OwnProfileRequestedOnEveryOpen ==
    \A c \in Conns :
        (SignedIn /\ mounted /\ readyState[c] = "OPEN")
            ~> (readyState[c] = "CLOSED" \/ (SignedIn /\ OwnProfileRequested(c)))

RecordTimeIsCreatedAt ==
    \A i \in 1..Len(messages) :
        messages[i].time = messages[i].event.created_at * 1000

\* C33: on every connection the channel REQ is the first frame: a step that
\* sends on a connection either sends the channel REQ first or finds it sent
ChannelReqIsFirstFrame ==
    [][\A c \in Conns :
          last'.out[c] # <<>> =>
              \/ ChannelReq \in sent[c]
              \/ last'.out[c][1] = ChannelReq]_vars

\* C33: one connection carries the channel REQ, a profile REQ and an EVENT
\* while the other connection is still Connecting
FeedProfilesAndEventOnOne ==
    \E c, d \in Conns :
        /\ readyState[d] = "CONNECTING"
        /\ ChannelReq \in sent[c]
        /\ \E f \in sent[c] : f.verb = "REQ" /\ f.filter.kinds = <<0>>
        /\ \E f \in sent[c] : f.verb = "EVENT"

\* C34: receiving an accepted channel event whose id is already in the
\* Message Store and whose sender is already in the author registry is a
\* complete no-op: the stores, the registry and the user are unchanged and
\* no frame is sent on any connection
KnownEventFromKnownAuthorIsNoOp ==
    [][( /\ DeliveredNote(last')
         /\ TaggedForChannel(DeliveredEvent(last'))
         /\ Has(DeliveredEvent(last'), "id")
         /\ \E i \in 1..Len(messages) :
                /\ Has(messages[i].event, "id")
                /\ messages[i].event.id = DeliveredEvent(last').id
         /\ SetHas(subscribedUsers, DeliveredEvent(last').pubkey) )
       => /\ UNCHANGED <<messages, userProfiles, subscribedUsers, user>>
          /\ last'.out = Quiet]_vars

\* the latest step delivered an EVENT frame the router rejects: a kind-1
\* event without the tag of the current channel, or a kind other than 0 and 1
RejectedEvent(l) ==
    /\ l.op = "onmessage"
    /\ l.frame # None
    /\ l.frame[1].json
    /\ Len(l.frame[1].data) >= 3
    /\ l.frame[1].data[1] = "EVENT"
    /\ \/ l.frame[1].data[3].kind \notin {0, 1}
       \/ /\ l.frame[1].data[3].kind = 1
          /\ ~TaggedForChannel(l.frame[1].data[3])

\* C35: an inbound EVENT frame the router rejects changes nothing: its sender
\* is not added to the author registry, no frame is sent, and the Message
\* Store and the Profile Store are unchanged
RejectedEventChangesNothing ==
    [][RejectedEvent(last') =>
          /\ UNCHANGED <<messages, userProfiles, subscribedUsers, user,
                         globalUser, sent>>
          /\ last'.out = Quiet]_vars

\* C35: a rejected event has been delivered on an Open connection to a session
\* whose Message Store is not empty, and its sender is not in the registry
RejectedAfterAccepted ==
    /\ RejectedEvent(last)
    /\ messages # <<>>
    /\ subscribedUsers # <<>>
    /\ ~SetHas(subscribedUsers, last.frame[1].data[3].pubkey)

\* C36: after the teardown no connection is Open and no frame is sent on any
\* connection, whatever was Connecting or pending when the teardown ran
NothingOpensAfterTeardown ==
    [][~mounted' =>
          /\ \A c \in Conns : readyState'[c] # "OPEN"
          /\ last'.out = Quiet]_vars

\* C37: handleSendMessage called with an empty or whitespace-only draft, or
\* with no user, is a no-op: no event is built (nothing awaits a digest), no
\* frame is sent, and the Message Store, the author registry and the draft
\* are unchanged
\* (Send exists only on the chat screen, where a user is always set, so the
\* blank draft is the half of the guard that a session can reach)
BlankSendIsNoOp ==
    [][( /\ last'.op = "handleSendMessage"
         /\ (trim(newMessage) = "" \/ user = None) )
       => /\ UNCHANGED <<pending, messages, subscribedUsers, newMessage, sent,
                         userProfiles, user>>
          /\ last'.out = Quiet]_vars

\* C37: Send was pressed on a draft of blanks while a connection was Open,
\* and nothing awaits a digest
BlankDraftSent ==
    /\ last.op = "handleSendMessage"
    /\ newMessage # ""
    /\ trim(newMessage) = ""
    /\ pending = <<>>
    /\ \E c \in Conns : readyState[c] = "OPEN"

====
